---- MODULE Spec2Model ----
(***************************************************************************)
(* State-machine model of src/src/autoBuy.ts: the randomized multi-wallet  *)
(* auto-buy session (main entrypoint, runAutoBuy, capBuyAmount and         *)
(* performBuy) on Node's single-threaded event loop.                       *)
(*                                                                         *)
(* A state of the model is a state of the process at a suspension point:   *)
(* every action is one continuation run by the event loop (the code from   *)
(* the resolution of one await, or from a timer callback, up to the next   *)
(* await).                                                                 *)
(*                                                                         *)
(* Amounts are counted in units of FEE_BUFFER_SOL (0.005 SOL), delays in   *)
(* milliseconds.  The configuration read from the environment is drawn in  *)
(* Init from the well-formed configurations: 0 < MIN_BUY_AMOUNT_SOL <=     *)
(* MAX_BUY_AMOUNT_SOL and 0 <= MIN_DELAY <= MAX_DELAY.                     *)
(***************************************************************************)
EXTENDS Integers, Sequences, FiniteSets, TLC

\* ------------------------------------------------------------------ bounds
MaxWallets == 2     \* longest WALLETS list
MaxBalance == 3     \* largest on-chain balance of a wallet
MaxAmount  == 3     \* largest configured buy amount
MaxDelay   == 1     \* largest configured delay
MaxTx      == 3     \* most transactions a built swap splits into
MaxRoutes  == 2     \* most pools on the direct path of a route computation
MaxOutput  == 2     \* largest simulated output of a pool
RandomSteps == 2    \* Math.random() is drawn from {0/RandomSteps, ..., (RandomSteps-1)/RandomSteps}

\* ------------------------------------------------------- program constants
FEE_BUFFER_SOL == 1 \* the unit of amounts: 0.005 SOL

None == -1          \* "no value yet" of a numeric field

\* The value of the global `raydium` before initRaydium has assigned it.
Undefined == [initialized |-> FALSE, owner |-> 0]

\* What a lookup of a pool id yields in a data set that has no such key.
UndefinedPool == [id |-> 0, state |-> 0]

VARIABLES
    env,                  \* what validation finds in the environment
    WALLETS,              \* the wallet list, as the set of its indices 1..n
    MIN_DELAY, MAX_DELAY, \* configured delay range
    MIN_BUY_AMOUNT_SOL, MAX_BUY_AMOUNT_SOL, \* configured amount range
    raydium,              \* the shared routing-service handle
    mainPc,               \* where the main entrypoint is suspended
    fatal,                \* the stage whose failure ended the process, or "none"
    idx,                  \* the wallet the main entrypoint's current loop is at
    desiredAmountSOL,     \* wallet -> amount drawn by runAutoBuy, or None
    balanceRead,          \* wallet -> balance capBuyAmount read, or None
    finalAmountSOL,       \* wallet -> result of capBuyAmount, or None
    timer,                \* wallet -> delay of its pending timer, or None
    timersSet,            \* wallet -> number of setTimeout calls made for it
    invoked,              \* wallet -> sequence of amounts performBuy was called with
    task,                 \* wallet -> where its swap attempt is
    txs,                  \* wallet -> status of each transaction of its swap
    txLog,                \* wallet -> transaction indices in submission order
    failedAt,             \* wallet -> the step whose failure was caught, or "none"
    swapRoutesLength,     \* wallet -> swapRoutes.length of its attempt, or None
    signer,               \* wallet -> the owner its swap was built for, or None
    directPath,           \* the directPath argument of the latest route computation
    swapRoutes,           \* what that computation returned
    bestRoute             \* the route chosen from it

vars == << env, WALLETS, MIN_DELAY, MAX_DELAY, MIN_BUY_AMOUNT_SOL, MAX_BUY_AMOUNT_SOL,
           raydium, mainPc, fatal, idx, desiredAmountSOL, balanceRead,
           finalAmountSOL, timer, timersSet, invoked, task, txs, txLog, failedAt,
           swapRoutesLength, signer, directPath, swapRoutes, bestRoute >>

config == << env, WALLETS, MIN_DELAY, MAX_DELAY, MIN_BUY_AMOUNT_SOL, MAX_BUY_AMOUNT_SOL >>
orchestratorVars == << desiredAmountSOL, balanceRead, finalAmountSOL, timersSet >>
attemptVars == << timer, invoked, task, txs, txLog, failedAt, swapRoutesLength, signer >>
routeVars == << directPath, swapRoutes, bestRoute >>

AllWallets == 1..MaxWallets

\* What connection.getBalance can return: the ledger is outside the process
\* and a query returns whatever the wallet holds at that moment.
Balances == 0..MaxBalance

\* The awaits of performBuy, in program order.
Steps == << "fetchRoutePoolBasicInfo", "fetchSwapRoutesData", "getEpochInfo",
            "computePoolToPoolKeys", "swap", "execute" >>

Running == { Steps[k] : k \in 1..Len(Steps) }

\* ------------------------------------------------------------ pure helpers

\* capBuyAmount returning what is affordable without comparing it with the
\* desired amount.
capBuyAmountNoMin(balanceSOL, desired, minBuy) ==
    LET maxAffordable == balanceSOL - FEE_BUFFER_SOL
    IN  IF maxAffordable < minBuy THEN 0 ELSE maxAffordable

\* capBuyAmount without the test against the minimum buy.
capBuyAmountNoFloor(balanceSOL, desired, minBuy) ==
    LET maxAffordable == balanceSOL - FEE_BUFFER_SOL
    IN  IF desired < maxAffordable THEN desired ELSE maxAffordable

\* capBuyAmount refusing a wallet that can afford exactly the minimum buy.
capBuyAmountFloorInclusive(balanceSOL, desired, minBuy) ==
    LET maxAffordable == balanceSOL - FEE_BUFFER_SOL
    IN  IF maxAffordable <= minBuy
        THEN 0
        ELSE IF desired < maxAffordable THEN desired ELSE maxAffordable

\* capBuyAmount taking the whole balance as affordable.
capBuyAmountNoFeeBuffer(balanceSOL, desired, minBuy) ==
    IF balanceSOL < minBuy
    THEN 0
    ELSE IF desired < balanceSOL THEN desired ELSE balanceSOL

\* capBuyAmount, given the balance its getBalance call returned.
capBuyAmount(balanceSOL, desired, minBuy) ==
    LET maxAffordable == balanceSOL - FEE_BUFFER_SOL
    IN  IF maxAffordable < minBuy
        THEN 0
        ELSE IF desired < maxAffordable THEN desired ELSE maxAffordable

\* Math.random() * (MAX_BUY_AMOUNT_SOL - MIN_BUY_AMOUNT_SOL) + MIN_BUY_AMOUNT_SOL
\* with Math.random() in [0, 1): the values on the amount grid it can take.
DesiredAmounts(minBuy, maxBuy) ==
    { d \in minBuy..maxBuy : d < maxBuy \/ d = minBuy }

\* The delay drawn from [0, MAX_DELAY - MIN_DELAY] instead.
randomDelayNoOffset(k, minDelay, maxDelay) ==
    (k * (maxDelay - minDelay + 1)) \div RandomSteps

\* Math.floor(r * (MAX_DELAY - MIN_DELAY + 1)) + MIN_DELAY for r = k / RandomSteps.
randomDelay(k, minDelay, maxDelay) ==
    ((k * (maxDelay - minDelay + 1)) \div RandomSteps) + minDelay

\* A runAutoBuy that skips no wallet.
ShouldSkipNever(finalAmount, minBuy) == FALSE

\* The test of runAutoBuy that skips a wallet.
ShouldSkip(finalAmount, minBuy) == finalAmount < minBuy

\* ---------------------------------------------------------- route resolution

\* A pool of the direct path for which none of ammSimulateCache,
\* computeClmmPoolInfo and computeCpmmData has an entry.
Absent == 0

\* What fetchSwapRoutesData can return for the pools 1..n of the direct path:
\* pool p |-> Absent, or the output the simulation computes from its state.
PoolData == UNION { [1..n -> 0..MaxOutput] : n \in 0..MaxRoutes }

\* The directPath argument performBuy builds: each pool of the path is looked
\* up in the three data sets, and the lookup of an absent pool yields
\* undefined, which stays in the list.
directPathOf(data) ==
    [p \in 1..Len(data) |->
        IF data[p] = Absent THEN UndefinedPool ELSE [id |-> p, state |-> data[p]]]

\* The candidate the simulation makes of a pool.
Candidate(pool) == [pool |-> pool.id, amountOut |-> pool.state]

\* Candidate r put into the list s, which is kept best first.
RECURSIVE Insert(_, _)
Insert(r, s) ==
    IF s = << >> THEN << r >>
    ELSE IF r.amountOut > Head(s).amountOut THEN << r >> \o s
    ELSE << Head(s) >> \o Insert(r, Tail(s))

\* The candidates of the pools of s, best first.
RECURSIVE BestFirst(_)
BestFirst(s) ==
    IF s = << >> THEN << >> ELSE Insert(Candidate(Head(s)), BestFirst(Tail(s)))

\* raydium.tradeV2.getAllRouteComputeAmountOut on a directPath list.  It is
\* declared for a list of pools: given an undefined entry it either passes
\* over the entry (tolerant) or throws on dereferencing it.  The candidates
\* it returns are ordered best first.
getAllRouteComputeAmountOut(path, tolerant) ==
    LET pools == SelectSeq(path, LAMBDA p : p # UndefinedPool)
    IN  IF pools # path /\ ~tolerant
        THEN [threw |-> TRUE, routes |-> << >>]
        ELSE [threw |-> FALSE, routes |-> BestFirst(pools)]

\* A performBuy that goes on whatever the number of candidates.
NoRoutesNever(routes) == FALSE

\* The test `!swapRoutes.length` of performBuy.
NoRoutes(routes) == Len(routes) = 0

\* A performBuy that takes the last candidate.
bestRouteLast(routes) == routes[Len(routes)]

\* const bestRoute = swapRoutes[0]
bestRouteOf(routes) == routes[1]

\* The value of bestRoute when performBuy chose no route.
NoRoute == [pool |-> 0, amountOut |-> 0]

\* ------------------------------------------------------------------- Init

\* What the validation at load finds: every required setting present and
\* readable, or the first one that is not.
Environments == {"ok", "noRpcEndpoint", "noContractAddress", "noWallets", "unparsableWallets"}

Init ==
    /\ env \in Environments
    /\ \E n \in 0..MaxWallets : WALLETS = 1..n
    /\ env # "ok" => WALLETS = {}
    /\ MIN_DELAY \in 0..MaxDelay
    /\ MAX_DELAY \in MIN_DELAY..MaxDelay
    /\ MIN_BUY_AMOUNT_SOL \in 1..MaxAmount
    /\ MAX_BUY_AMOUNT_SOL \in MIN_BUY_AMOUNT_SOL..MaxAmount
    /\ raydium = Undefined
    /\ mainPc = "start"
    /\ fatal = "none"
    /\ idx = 1
    /\ desiredAmountSOL = [w \in AllWallets |-> None]
    /\ balanceRead = [w \in AllWallets |-> None]
    /\ finalAmountSOL = [w \in AllWallets |-> None]
    /\ timer = [w \in AllWallets |-> None]
    /\ timersSet = [w \in AllWallets |-> 0]
    /\ invoked = [w \in AllWallets |-> << >>]
    /\ task = [w \in AllWallets |-> "unseen"]
    /\ txs = [w \in AllWallets |-> << >>]
    /\ txLog = [w \in AllWallets |-> << >>]
    /\ failedAt = [w \in AllWallets |-> "none"]
    /\ swapRoutesLength = [w \in AllWallets |-> None]
    /\ signer = [w \in AllWallets |-> None]
    /\ directPath = << >>
    /\ swapRoutes = [called |-> FALSE, threw |-> FALSE, routes |-> << >>]
    /\ bestRoute = NoRoute

\* ------------------------------------------------------------ main entrypoint

\* The process is dead once it has exited; every exit of this program is one
\* with status 1 (process.exit(1), an uncaught exception at load or an
\* unhandled rejection).
Alive == mainPc # "exited"

Last == Cardinality(WALLETS)

\* A main entrypoint whose catch logs the error without ending the process.
mainCatchLogsOnly(pc) == "returned"

\* The catch of the main entrypoint: process.exit(1).
mainCatch(pc) == "exited"

\* The load of the module and the synchronous start of the main entrypoint.
\* A required setting that is missing or unreadable makes the validation at
\* load throw, before the entrypoint is reached.  With an empty wallet list
\* displayWalletBalances has nothing to await and initRaydium throws, which
\* the entrypoint's catch turns into process.exit(1).
MainStart ==
    /\ mainPc = "start"
    /\ IF env # "ok"
       THEN /\ mainPc' = "exited"
            /\ fatal' = "environment"
       ELSE IF WALLETS = {}
       THEN /\ mainPc' = mainCatch(mainPc)
            /\ fatal' = "initRaydium"
       ELSE /\ mainPc' = "snapshot1"
            /\ fatal' = fatal
    /\ UNCHANGED << config, routeVars, raydium, idx, orchestratorVars, attemptVars >>

\* displayWalletBalances: the getBalance call for wallet idx resolves.  After
\* the last wallet the entrypoint goes on: to initRaydium after the initial
\* snapshot, to its end after the final one.
displayWalletBalances ==
    /\ mainPc \in {"snapshot1", "snapshot2"}
    /\ IF idx < Last
       THEN /\ idx' = idx + 1
            /\ mainPc' = mainPc
       ELSE /\ idx' = 1
            /\ mainPc' = IF mainPc = "snapshot1" THEN "initRaydium" ELSE "returned"
    /\ UNCHANGED << config, routeVars, raydium, fatal, orchestratorVars, attemptVars >>

\* What Raydium.load resolves with: a handle whose owner is the first wallet.
LoadedIntoLocal == [initialized |-> FALSE, owner |-> 0]

Loaded == [initialized |-> TRUE, owner |-> 1]

\* initRaydium: Raydium.load resolves and its result is assigned to the
\* global handle.
initRaydium ==
    /\ mainPc = "initRaydium"
    /\ raydium' = Loaded
    /\ mainPc' = "runAutoBuy"
    /\ idx' = 1
    /\ UNCHANGED << config, routeVars, fatal, orchestratorVars, attemptVars >>

\* The await the entrypoint is suspended at rejects (a balance query of a
\* snapshot or of capBuyAmount, or Raydium.load): the entrypoint's catch
\* calls process.exit(1).
MainFatal ==
    /\ mainPc \in {"snapshot1", "initRaydium", "runAutoBuy", "snapshot2"}
    /\ mainPc' = mainCatch(mainPc)
    /\ fatal' = mainPc
    /\ UNCHANGED << config, routeVars, raydium, idx, orchestratorVars, attemptVars >>

\* One iteration of runAutoBuy's loop, from the resolution of capBuyAmount's
\* balance query for wallet idx (with balance b) to the next iteration's balance query (or to
\* the return of runAutoBuy and the first balance query of the final snapshot).
EvaluateWallet(w) ==
    \E d \in DesiredAmounts(MIN_BUY_AMOUNT_SOL, MAX_BUY_AMOUNT_SOL),
       b \in Balances,
       k \in 0..(RandomSteps - 1) :
        LET final == capBuyAmount(b, d, MIN_BUY_AMOUNT_SOL)
            skip  == ShouldSkip(final, MIN_BUY_AMOUNT_SOL)
        IN  /\ desiredAmountSOL' = [desiredAmountSOL EXCEPT ![w] = d]
            /\ balanceRead' = [balanceRead EXCEPT ![w] = b]
            /\ finalAmountSOL' = [finalAmountSOL EXCEPT ![w] = final]
            /\ task' = [task EXCEPT ![w] = IF skip THEN "skipped" ELSE "scheduled"]
            /\ timer' = IF skip THEN timer
                        ELSE [timer EXCEPT ![w] = randomDelay(k, MIN_DELAY, MAX_DELAY)]
            /\ timersSet' = IF skip THEN timersSet
                            ELSE [timersSet EXCEPT ![w] = @ + 1]
            /\ IF w < Last
               THEN /\ idx' = w + 1
                    /\ mainPc' = mainPc
               ELSE /\ idx' = 1
                    /\ mainPc' = "snapshot2"
            /\ UNCHANGED << config, routeVars, raydium, fatal, invoked, txs, txLog,
                            failedAt, swapRoutesLength, signer >>

\* A runAutoBuy that awaited each wallet's delay and swap before going on.
runAutoBuyAwaitingSwaps ==
    /\ mainPc = "runAutoBuy"
    /\ \A v \in 1..(idx - 1) : task[v] \in {"skipped", "success", "failed"}
    /\ EvaluateWallet(idx)

runAutoBuy ==
    /\ mainPc = "runAutoBuy"
    /\ EvaluateWallet(idx)

\* ------------------------------------------------------------- swap attempt

\* A pending timer may fire once no timer set before it with a delay that is
\* not larger is still pending (timers expire in order of their expiry time).
TimerDue(w) ==
    /\ timer[w] # None
    /\ \A v \in 1..(w - 1) : timer[v] # None => timer[v] > timer[w]

\* A timer set with setInterval stays pending after it has fired.
timerAfterFiringRepeats(delay) == delay

\* A timer set with setTimeout is gone once it has fired.
timerAfterFiring(delay) == None

\* What the catch of performBuy leaves of the process: it logs and returns.
performBuyUncaught(pc) == "exited"

performBuyCatch(pc) == pc

\* A step of wallet w's attempt throws inside performBuy's try block.
Caught(w, step) ==
    /\ task' = [task EXCEPT ![w] = "failed"]
    /\ failedAt' = [failedAt EXCEPT ![w] = step]
    /\ mainPc' = performBuyCatch(mainPc)

\* The timer callback of wallet w runs: performBuy(wallet, finalAmountSOL) up
\* to its first await.  Without a routing-service handle performBuy throws
\* before its try block and the rejection of the callback ends the process.
TimerFires(w) ==
    /\ Alive
    /\ TimerDue(w)
    /\ timer' = [timer EXCEPT ![w] = timerAfterFiring(@)]
    /\ invoked' = [invoked EXCEPT ![w] = Append(@, finalAmountSOL[w])]
    /\ IF ~raydium.initialized
       THEN /\ task' = [task EXCEPT ![w] = "threw"]
            /\ mainPc' = "exited"
            /\ fatal' = "performBuy"
       ELSE /\ task' = [task EXCEPT ![w] = Steps[1]]
            /\ mainPc' = mainPc
            /\ fatal' = fatal
    /\ UNCHANGED << config, routeVars, raydium, idx, orchestratorVars, txs, txLog,
                    failedAt, swapRoutesLength, signer >>

\* fetchRoutePoolBasicInfo, fetchSwapRoutesData or computePoolToPoolKeys
\* resolves and performBuy runs on to its next await.
AwaitResolves(w) ==
    /\ Alive
    /\ \E k \in {1, 2, 4} :
        /\ task[w] = Steps[k]
        /\ task' = [task EXCEPT ![w] = Steps[k + 1]]
    /\ UNCHANGED << config, routeVars, raydium, mainPc, fatal, idx, orchestratorVars,
                    timer, invoked, txs, txLog, failedAt, swapRoutesLength, signer >>

\* getEpochInfo resolves and getAllRouteComputeAmountOut is called on the
\* directPath built from the pool data: its throw is caught like any other,
\* with no candidate performBuy throws 'No swap routes found', and otherwise
\* performBuy goes on to resolve the pool keys of the route it chose.
ComputeRoutes(w) ==
    /\ Alive
    /\ task[w] = "getEpochInfo"
    /\ \E data \in PoolData, tolerant \in BOOLEAN :
        LET out == getAllRouteComputeAmountOut(directPathOf(data), tolerant)
        IN  IF out.threw
            THEN /\ Caught(w, "getAllRouteComputeAmountOut")
                 /\ UNCHANGED swapRoutesLength
            ELSE /\ swapRoutesLength' = [swapRoutesLength EXCEPT ![w] = Len(out.routes)]
                 /\ IF NoRoutes(out.routes)
                    THEN Caught(w, "noRoute")
                    ELSE /\ task' = [task EXCEPT ![w] = "computePoolToPoolKeys"]
                         /\ UNCHANGED << mainPc, failedAt >>
    /\ UNCHANGED << config, routeVars, raydium, fatal, idx, orchestratorVars,
                    timer, invoked, txs, txLog, signer >>

\* One of the awaits before execute rejects.
AwaitRejects(w) ==
    /\ Alive
    /\ task[w] \in Running \ {"execute"}
    /\ Caught(w, task[w])
    /\ UNCHANGED << config, routeVars, raydium, fatal, idx, orchestratorVars,
                    timer, invoked, txs, txLog, swapRoutesLength, signer >>

\* The options performBuy passes to execute.
executeInParallel == [sequentially |-> FALSE]

executeOptions == [sequentially |-> TRUE]

Unsent(s) == { j \in 1..Len(s) : s[j] = "unsent" }
InFlight(s) == { j \in 1..Len(s) : s[j] = "inflight" }
Min(S) == CHOOSE x \in S : \A y \in S : x <= y

\* The transactions execute sends when it is called and whenever a
\* confirmation lets it go on: with `sequentially` the first one not yet
\* sent, otherwise all of them at once.
ToSend(s, opts) ==
    IF Unsent(s) = {} THEN {}
    ELSE IF opts.sequentially THEN {Min(Unsent(s))}
    ELSE Unsent(s)

Send(s, opts) ==
    [j \in 1..Len(s) |-> IF j \in ToSend(s, opts) THEN "inflight" ELSE s[j]]

\* The indices of S in increasing order.
RECURSIVE InOrder(_)
InOrder(S) == IF S = {} THEN << >> ELSE << Min(S) >> \o InOrder(S \ {Min(S)})

\* raydium.tradeV2.swap resolves with a swap of k transactions, built for the
\* owner of the handle it was called on, and execute is called on it.
BuildSwap(w) ==
    /\ Alive
    /\ task[w] = "swap"
    /\ \E k \in 1..MaxTx :
        LET built == [j \in 1..k |-> "unsent"]
        IN  /\ txs' = [txs EXCEPT ![w] = Send(built, executeOptions)]
            /\ txLog' = [txLog EXCEPT ![w] = InOrder(ToSend(built, executeOptions))]
    /\ signer' = [signer EXCEPT ![w] = raydium.owner]
    /\ task' = [task EXCEPT ![w] = "execute"]
    /\ UNCHANGED << config, routeVars, raydium, mainPc, fatal, idx, orchestratorVars,
                    timer, invoked, failedAt, swapRoutesLength >>

\* Transaction j of wallet w's swap is confirmed: execute sends what comes
\* next, or resolves when every transaction is confirmed.
TxConfirmed(w, j) ==
    /\ Alive
    /\ task[w] = "execute"
    /\ j \in InFlight(txs[w])
    /\ LET now == [txs[w] EXCEPT ![j] = "confirmed"]
       IN  /\ txs' = [txs EXCEPT ![w] = Send(now, executeOptions)]
           /\ txLog' = [txLog EXCEPT ![w] = @ \o InOrder(ToSend(now, executeOptions))]
           /\ task' = [task EXCEPT ![w] =
                         IF \A i \in 1..Len(now) : now[i] = "confirmed"
                         THEN "success" ELSE "execute"]
    /\ UNCHANGED << config, routeVars, raydium, mainPc, fatal, idx, orchestratorVars,
                    timer, invoked, failedAt, swapRoutesLength, signer >>

\* Transaction j of wallet w's swap is rejected (at submission or at
\* confirmation): execute rejects and performBuy's catch reports it.
TxRejected(w, j) ==
    /\ Alive
    /\ task[w] = "execute"
    /\ j \in InFlight(txs[w])
    /\ txs' = [txs EXCEPT ![w][j] = "rejected"]
    /\ Caught(w, "execute")
    /\ UNCHANGED << config, routeVars, raydium, fatal, idx, orchestratorVars,
                    timer, invoked, txLog, swapRoutesLength, signer >>

\* ------------------------------------------------------------ specification

Next ==
    \/ MainStart
    \/ displayWalletBalances
    \/ initRaydium
    \/ MainFatal
    \/ runAutoBuy
    \/ \E w \in WALLETS : TimerFires(w)
    \/ \E w \in WALLETS : AwaitResolves(w)
    \/ \E w \in WALLETS : ComputeRoutes(w)
    \/ \E w \in WALLETS : AwaitRejects(w)
    \/ \E w \in WALLETS : BuildSwap(w)
    \/ \E w \in WALLETS : \E j \in 1..MaxTx : TxConfirmed(w, j)
    \/ \E w \in WALLETS : \E j \in 1..MaxTx : TxRejected(w, j)

Spec == Init /\ [][Next]_vars

\* ------------------------------------------------- capBuyAmount on its own

\* A call capBuyAmount(wallet w, d) by any caller, the balance query
\* returning b.  The record kept is that of the latest call.
capBuyAmountCall(w, d, b) ==
    /\ desiredAmountSOL' = [v \in AllWallets |-> IF v = w THEN d ELSE None]
    /\ balanceRead' = [v \in AllWallets |-> IF v = w THEN b ELSE None]
    /\ finalAmountSOL' = [v \in AllWallets |->
                            IF v = w THEN capBuyAmount(b, d, MIN_BUY_AMOUNT_SOL) ELSE None]
    /\ UNCHANGED << config, routeVars, raydium, mainPc, fatal, idx, timersSet, attemptVars >>

CapNext ==
    \E w \in WALLETS, d \in 0..MaxAmount, b \in Balances : capBuyAmountCall(w, d, b)

\* capBuyAmount applied to every desired amount and balance of the bounds,
\* under every configuration.
CapSpec == Init /\ [][CapNext]_vars

\* ----------------------------------------------- route resolution on its own

\* The route computation of performBuy on the pool data `data`, from the
\* building of directPath to the choice of bestRoute.  The record kept is
\* that of the latest computation.
resolveRoutes(data, tolerant) ==
    LET path == directPathOf(data)
        out  == getAllRouteComputeAmountOut(path, tolerant)
    IN  /\ directPath' = path
        /\ swapRoutes' = [called |-> TRUE, threw |-> out.threw, routes |-> out.routes]
        /\ bestRoute' = IF out.threw \/ NoRoutes(out.routes)
                        THEN NoRoute ELSE bestRouteOf(out.routes)
        /\ UNCHANGED << config, raydium, mainPc, fatal, idx, orchestratorVars, attemptVars >>

RouteNext ==
    \E data \in PoolData, tolerant \in BOOLEAN : resolveRoutes(data, tolerant)

\* The route computation applied to all pool data of the bounds.
RouteSpec == Init /\ [][RouteNext]_vars

\* --------------------------------------------------------------- properties

\* capBuyAmount has returned for wallet w.
Evaluated(w) == finalAmountSOL[w] # None

\* What wallet w could afford when capBuyAmount read its balance.
Affordable(w) == balanceRead[w] - FEE_BUFFER_SOL

\* C2: whatever capBuyAmount returns lies between 0 and the desired amount.
C2_CappedWithinDesired ==
    \A w \in AllWallets :
        Evaluated(w) =>
            /\ 0 <= finalAmountSOL[w]
            /\ finalAmountSOL[w] <= desiredAmountSOL[w]

\* A call in which the balance reduced the amount without cancelling it.
C2_Witness ==
    \E w \in AllWallets :
        /\ Evaluated(w)
        /\ 0 < finalAmountSOL[w]
        /\ finalAmountSOL[w] < desiredAmountSOL[w]

\* C3: when the balance less the fee buffer is below the minimum buy,
\* capBuyAmount returns exactly 0.
C3_ZeroBelowMinimum ==
    \A w \in AllWallets :
        (Evaluated(w) /\ Affordable(w) < MIN_BUY_AMOUNT_SOL) => finalAmountSOL[w] = 0

\* A call with a positive balance and a positive desired amount, both too
\* small for the minimum buy.
C3_Witness ==
    \E w \in AllWallets :
        /\ Evaluated(w)
        /\ Affordable(w) < MIN_BUY_AMOUNT_SOL
        /\ Affordable(w) > 0
        /\ desiredAmountSOL[w] > 0
        /\ finalAmountSOL[w] = 0

\* C4 as claimed: when the balance less the fee buffer covers the desired
\* amount, capBuyAmount returns exactly the desired amount.
C4_DesiredWhenAffordable_Original ==
    \A w \in AllWallets :
        (Evaluated(w) /\ Affordable(w) >= desiredAmountSOL[w]) =>
            finalAmountSOL[w] = desiredAmountSOL[w]

\* C4 (amended): when the balance less the fee buffer covers both the
\* desired amount and the minimum buy, capBuyAmount returns exactly the
\* desired amount.
C4_DesiredWhenAffordable ==
    \A w \in AllWallets :
        ( /\ Evaluated(w)
          /\ Affordable(w) >= desiredAmountSOL[w]
          /\ Affordable(w) >= MIN_BUY_AMOUNT_SOL ) =>
            finalAmountSOL[w] = desiredAmountSOL[w]

\* A call whose desired amount the wallet can afford with room to spare.
C4_Witness ==
    \E w \in AllWallets :
        /\ Evaluated(w)
        /\ Affordable(w) > desiredAmountSOL[w]
        /\ Affordable(w) >= MIN_BUY_AMOUNT_SOL
        /\ desiredAmountSOL[w] > 0
        /\ finalAmountSOL[w] = desiredAmountSOL[w]

\* C5: a wallet whose capped amount is below the minimum buy gets no timer
\* and no swap attempt, and runAutoBuy goes on to the next wallet; any other
\* evaluated wallet gets exactly one timer, and performBuy is called for it
\* at most once, with the capped amount.
C5_SkipOrScheduleOnce ==
    \A w \in AllWallets :
        Evaluated(w) =>
            IF finalAmountSOL[w] < MIN_BUY_AMOUNT_SOL
            THEN /\ task[w] = "skipped"
                 /\ timersSet[w] = 0
                 /\ timer[w] = None
                 /\ invoked[w] = << >>
                 /\ mainPc = "runAutoBuy" => idx > w
                 /\ mainPc \in {"snapshot2", "returned"} =>
                        \A v \in WALLETS : task[v] # "unseen"
            ELSE /\ task[w] # "skipped"
                 /\ timersSet[w] = 1
                 /\ invoked[w] \in { << >>, << finalAmountSOL[w] >> }
                 /\ timer[w] # None <=> invoked[w] = << >>

\* A skipped wallet, and a later wallet whose swap attempt was invoked.
C5_Witness ==
    \E w, v \in WALLETS :
        /\ w < v
        /\ task[w] = "skipped"
        /\ invoked[v] = << finalAmountSOL[v] >>

\* C6: every amount performBuy is called with lies between the minimum buy
\* and the balance capBuyAmount read less the fee buffer.
C6_InvokedAmountInRange ==
    \A w \in AllWallets :
        \A n \in 1..Len(invoked[w]) :
            /\ MIN_BUY_AMOUNT_SOL <= invoked[w][n]
            /\ invoked[w][n] <= balanceRead[w] - FEE_BUFFER_SOL

\* A swap attempt invoked with all the wallet could afford, less than desired.
C6_Witness ==
    \E w \in WALLETS :
        /\ invoked[w] # << >>
        /\ invoked[w][1] = Affordable(w)
        /\ invoked[w][1] < desiredAmountSOL[w]

\* C7: the delay of every timer runAutoBuy sets lies between MIN_DELAY and
\* MAX_DELAY.
C7_DelayInRange ==
    \A w \in AllWallets :
        timer[w] # None => (MIN_DELAY <= timer[w] /\ timer[w] <= MAX_DELAY)

\* Timers pending with the smallest and with the largest delay of a range.
C7_Witness ==
    \E w, v \in WALLETS :
        /\ MIN_DELAY < MAX_DELAY
        /\ timer[w] = MIN_DELAY
        /\ timer[v] = MAX_DELAY

\* C8: while runAutoBuy is in its loop its next iteration can always run,
\* whatever state the swap attempts set up earlier are in, and it returns
\* once every wallet is evaluated.
C8_OrchestratorNeverWaits ==
    /\ mainPc = "runAutoBuy" => ENABLED runAutoBuy
    /\ mainPc \in {"snapshot2", "returned"} => \A w \in WALLETS : task[w] # "unseen"

\* runAutoBuy has returned while one attempt is pending and one in flight.
C8_Witness ==
    \E w, v \in WALLETS :
        /\ mainPc = "snapshot2"
        /\ task[w] = "scheduled"
        /\ task[v] \in Running

\* A step in which a failure inside wallet w's attempt is caught.
AttemptFails(w) == task[w] \in Running /\ task'[w] = "failed"

\* A step that leaves the process running and every attempt but w's as it was.
OthersUntouched(w) ==
    /\ mainPc' = mainPc
    /\ \A v \in AllWallets \ {w} :
        /\ task'[v] = task[v]
        /\ timer'[v] = timer[v]
        /\ txs'[v] = txs[v]

\* C1: a failure at any step of one wallet's swap attempt ends that attempt
\* only: the process keeps running and every other wallet's timer or attempt
\* is left as it was.
C1_FailureIsolated ==
    [][\A w \in AllWallets : AttemptFails(w) => OthersUntouched(w)]_vars

\* One wallet's attempt failed at submission and the other wallet's attempt,
\* in a process that is still running, went on to succeed.
C1_Witness ==
    \E w, v \in WALLETS :
        /\ w # v
        /\ task[w] = "failed"
        /\ failedAt[w] = "execute"
        /\ task[v] = "success"
        /\ mainPc = "returned"

\* The transactions of wallet w's swap that have been submitted.
Submitted(w) == { j \in 1..Len(txs[w]) : txs[w][j] # "unsent" }

\* C9: within one wallet's swap a transaction is submitted only once the one
\* before it is confirmed, so at most one of them is in flight.
C9_SequentialWithinSwap ==
    \A w \in AllWallets :
        /\ Cardinality(InFlight(txs[w])) <= 1
        /\ \A j \in Submitted(w) : j > 1 => txs[w][j - 1] = "confirmed"

\* Two wallets with a transaction in flight at once, one of them at its
\* second transaction and the other at its first.
C9_Witness ==
    \E w, v \in WALLETS :
        /\ w # v
        /\ Len(txs[w]) >= 2
        /\ txs[w][2] = "inflight"
        /\ Len(txs[v]) >= 1
        /\ txs[v][1] = "inflight"

\* The submissions of wallet w so far are transactions 1, 2, ... in order.
InRouteOrder(w) == \A n \in 1..Len(txLog[w]) : txLog[w][n] = n

\* C10, in every state: submissions are made in route order; a swap that
\* succeeded made exactly one submission per transaction; after a rejected
\* transaction none is submitted and the attempt has ended with the error
\* reported.
C10_State ==
    \A w \in AllWallets :
        /\ InRouteOrder(w)
        /\ Len(txLog[w]) = Cardinality(Submitted(w))
        /\ task[w] = "success" =>
              /\ Len(txLog[w]) = Len(txs[w])
              /\ \A j \in 1..Len(txs[w]) : txs[w][j] = "confirmed"
        /\ \A j \in 1..Len(txs[w]) :
              txs[w][j] = "rejected" =>
                  /\ \A i \in (j + 1)..Len(txs[w]) : txs[w][i] = "unsent"
                  /\ task[w] = "failed"
                  /\ failedAt[w] = "execute"

\* A step in which a transaction of wallet w is rejected.
Rejection(w) ==
    \E j \in 1..Len(txs[w]) :
        /\ txs[w][j] = "inflight"
        /\ Len(txs'[w]) = Len(txs[w])
        /\ txs'[w][j] = "rejected"

\* C10: a swap of k transactions makes exactly k submissions, in route order,
\* when all are accepted; a rejected submission is the last of its swap, ends
\* the attempt with a reported error, and leaves the other wallets' attempts
\* as they were.
C10_ExactlyKThenFailFast ==
    /\ []C10_State
    /\ [][\A w \in AllWallets : Rejection(w) => OthersUntouched(w)]_vars

\* A swap of three transactions whose second was rejected and whose third was
\* never submitted, beside a sibling whose swap of two transactions succeeded.
C10_Witness ==
    \E w, v \in WALLETS :
        /\ w # v
        /\ txs[w] = << "confirmed", "rejected", "unsent" >>
        /\ txLog[w] = << 1, 2 >>
        /\ task[v] = "success"
        /\ txLog[v] = << 1, 2 >>

\* What holds in every state of an attempt whose route computation returned.
C11_State ==
    \A w \in AllWallets :
        /\ failedAt[w] = "noRoute" <=> swapRoutesLength[w] = 0
        /\ swapRoutesLength[w] = 0 =>
              /\ task[w] = "failed"
              /\ txs[w] = << >>
              /\ txLog[w] = << >>
              /\ signer[w] = None
        /\ (swapRoutesLength[w] # None /\ swapRoutesLength[w] > 0) =>
              task[w] \in {"computePoolToPoolKeys", "swap", "execute", "success", "failed"}

\* The route computation of wallet w's attempt returns.
RoutesReturned(w) == swapRoutesLength[w] = None /\ swapRoutesLength'[w] # None

\* C11: an attempt ends with the no-route error exactly when its route
\* computation returned no candidate; it then resolves no pool keys and builds
\* and submits no transaction.  With at least one candidate it never reports
\* the no-route error and goes on to resolve the pool keys of its route.
C11_NoRouteIffNoCandidate ==
    /\ []C11_State
    /\ [][\A w \in AllWallets :
            RoutesReturned(w) =>
                IF swapRoutesLength'[w] = 0
                THEN task'[w] = "failed" /\ failedAt'[w] = "noRoute"
                ELSE task'[w] = "computePoolToPoolKeys" /\ failedAt'[w] = "none"]_vars

\* One attempt ended by the no-route error beside one that found two
\* candidates and swapped.
C11_Witness ==
    \E w, v \in WALLETS :
        /\ w # v
        /\ swapRoutesLength[w] = 0
        /\ failedAt[w] = "noRoute"
        /\ swapRoutesLength[v] = 2
        /\ task[v] = "success"

\* The latest route computation returned at least one candidate.
RouteChosen == swapRoutes.called /\ ~swapRoutes.threw /\ swapRoutes.routes # << >>

\* C12: the route performBuy hands to the swap is the candidate at index 0 of
\* the list the route computation returned, and no candidate of that list has
\* a larger simulated output.
C12_BestRouteIsFirstAndHighest ==
    RouteChosen =>
        /\ bestRoute = swapRoutes.routes[1]
        /\ \A i \in 1..Len(swapRoutes.routes) :
              swapRoutes.routes[i].amountOut <= bestRoute.amountOut

\* Two pools, the second of the direct path with the larger output: the route
\* chosen is the one through the second pool.
C12_Witness ==
    /\ RouteChosen
    /\ Len(directPath) = 2
    /\ directPath[1].state = 1
    /\ directPath[2].state = 2
    /\ Len(swapRoutes.routes) = 2
    /\ bestRoute = [pool |-> 2, amountOut |-> 2]

\* The pools of the latest directPath that have simulation state.
PoolsWithState == { p \in 1..Len(directPath) : directPath[p] # UndefinedPool }

\* The pools the candidates of the latest route computation go through.
CandidatePools == { swapRoutes.routes[i].pool : i \in 1..Len(swapRoutes.routes) }

\* C16: a route computation over a direct path some of whose pools have no
\* simulation state does not fail, and returns the candidates of exactly the
\* pools that have state.
C16_PartialDataTolerated ==
    swapRoutes.called =>
        /\ ~swapRoutes.threw
        /\ CandidatePools = PoolsWithState

\* Nothing of the session has happened: no balance query was made, no handle
\* loaded, no wallet evaluated, no timer set and no attempt started.
NothingDone ==
    /\ mainPc \in {"start", "exited"}
    /\ idx = 1
    /\ raydium = Undefined
    /\ \A w \in AllWallets :
          /\ balanceRead[w] = None
          /\ timer[w] = None
          /\ timersSet[w] = 0
          /\ task[w] = "unseen"
          /\ invoked[w] = << >>
          /\ txs[w] = << >>

\* C13: a failure of the initial snapshot, of initRaydium, of a balance query
\* of runAutoBuy or of the final snapshot ends the process with exit status 1,
\* and with a required setting missing the only step the process ever takes
\* is the abort at load, before anything of the session has happened.
C13_FatalErrorsExit ==
    /\ [](fatal # "none" => mainPc = "exited")
    /\ [](env # "ok" => NothingDone)
    /\ [][env # "ok" => (mainPc = "start" /\ mainPc' = "exited" /\ fatal' = "environment")]_vars
    /\ [][(mainPc \in {"snapshot1", "initRaydium", "runAutoBuy", "snapshot2"} /\ fatal' # fatal)
            => (fatal' = mainPc /\ mainPc' = "exited")]_vars

\* The balance query of runAutoBuy for the second wallet failed after the
\* first wallet was scheduled, and the process has exited.
C13_Witness ==
    /\ fatal = "runAutoBuy"
    /\ mainPc = "exited"
    /\ idx = 2
    /\ task[1] = "scheduled"

\* Wallet w's attempt is scheduled and has not fired, or has fired and has
\* not ended.
Pending(w) == timer[w] # None \/ task[w] \in Running

\* C14: no event cuts a scheduled or running attempt short: an attempt that
\* is scheduled or running is always in a live process, in which its timer
\* can still fire and its awaits can still settle.
C14_NoCancellation ==
    \A w \in AllWallets : Pending(w) => Alive

\* Every attempt scheduled in this session has ended.
AllAttemptsEnded ==
    \A w \in AllWallets : timersSet[w] > 0 => task[w] \in {"success", "failed"}

\* C15: while the final displayWalletBalances is reading balances (its query
\* for wallet idx is in flight), every attempt scheduled in this session has
\* ended.
C15_FinalSnapshotAfterSwaps ==
    mainPc = "snapshot2" => AllAttemptsEnded

\* What the swaps of the wallets of S that succeeded have taken from wallet v:
\* the amount of each swap built for v as owner.
RECURSIVE DebitedBy(_, _)
DebitedBy(S, v) ==
    IF S = {} THEN 0
    ELSE LET w == CHOOSE x \in S : TRUE
         IN  (IF task[w] = "success" /\ signer[w] = v THEN invoked[w][1] ELSE 0)
             + DebitedBy(S \ {w}, v)

Debited(v) == DebitedBy(AllWallets, v)

\* The amount wallet v was capped to (nothing, if it was not evaluated).
Capped(v) == IF Evaluated(v) THEN finalAmountSOL[v] ELSE 0

\* C17: the swap of wallet w's attempt is built for w as owner (signer and
\* payer), and what the session's swaps take from a wallet never exceeds the
\* amount that wallet was capped to.
C17_WalletPaysItsOwnSwap ==
    \A w \in AllWallets :
        /\ signer[w] # None => signer[w] = w
        /\ Debited(w) <= Capped(w)

\* C18: when performBuy has been called for any wallet, runAutoBuy has
\* evaluated every wallet of the list.
C18_NoAttemptBeforeAllEvaluated ==
    (\E w \in WALLETS : invoked[w] # << >>) => \A v \in WALLETS : Evaluated(v)

\* Wallet w was skipped, or its attempt has ended.
Ended(w) == task[w] \in {"skipped", "success", "failed"}

\* C19: performBuy is called at most once for each wallet of the list and at
\* most one timer is ever set for it; once its attempt has ended (or it was
\* skipped) nothing of it changes again: no new timer, no new call.
C19_AtMostOneAttempt ==
    /\ [](\A w \in AllWallets : Len(invoked[w]) <= 1 /\ timersSet[w] <= 1)
    /\ [][\A w \in AllWallets :
            Ended(w) =>
                /\ task'[w] = task[w]
                /\ timer'[w] = None
                /\ timersSet'[w] = timersSet[w]
                /\ invoked'[w] = invoked[w]
                /\ txs'[w] = txs[w]]_vars

\* One wallet's attempt failed and stayed so while the sibling's attempt ran
\* to success and the entrypoint returned.
C19_Witness ==
    \E w, v \in WALLETS :
        /\ w # v
        /\ task[w] = "failed"
        /\ Len(invoked[w]) = 1
        /\ task[v] = "success"
        /\ mainPc = "returned"

\* C20: the handle is assigned once, by initRaydium before runAutoBuy starts,
\* and never changes afterwards; whenever a timer is pending or performBuy
\* has been called the handle is initialized, and no call of performBuy ever
\* throws 'not initialized'.
C20_HandleInitializedOnce ==
    /\ [](\A w \in AllWallets : task[w] # "threw")
    /\ [](\A w \in AllWallets :
            (timer[w] # None \/ invoked[w] # << >>) => raydium.initialized)
    /\ [](mainPc \in {"runAutoBuy", "snapshot2", "returned"} => raydium.initialized)
    /\ [][raydium.initialized => raydium' = raydium]_vars
    /\ [][raydium' # raydium =>
            /\ mainPc = "initRaydium"
            /\ \A w \in AllWallets : task[w] = "unseen"]_vars

\* An attempt is running on the initialized handle while runAutoBuy is still
\* evaluating a later wallet.
C20_Witness ==
    /\ raydium.initialized
    /\ mainPc = "runAutoBuy"
    /\ \E w \in WALLETS : task[w] \in Running

====
